---- MODULE Spec2Model ----
(***************************************************************************)
(* Model of opr/datasets/custom.py: the PhystechCampus dataset.            *)
(*                                                                         *)
(* The program is single-threaded Python.  Its state is the dataset        *)
(* object (self), the table it indexes (dataset_df), the files under       *)
(* dataset_root (fs) and, for observation, the outcome of the latest call  *)
(* (call).  Operations: construction (__init__), __getitem__ and the       *)
(* point-cloud loader _load_pc.                                            *)
(*                                                                         *)
(* Python values: None is the string "None"; a Path is the string it was   *)
(* built from; a float32 read from a file is an integer (only its order    *)
(* against -100 and 100 is used by the code; NaN is left out).             *)
(***************************************************************************)
EXTENDS Integers, Sequences, FiniteSets, TLC

VARIABLES phase, args, self, csv, dataset_df, fs, call

vars == <<phase, args, self, csv, dataset_df, fs, call>>

None == "None"

\* ------------------------------------------------------------- bounds
\* Rows of the table.
NumRows == 2
\* Largest number of float32 values in a generated point-cloud file.
MaxFloats == 8

\* ------------------------------------------------- program constants
\* np.float32: bytes per value.
FloatSize == 4
\* reshape((-1, 4)): values per point-cloud row.
RowWidth == 4
\* The range filter keeps coordinates in [-100, 100].
RangeLimit == 100

valid_subsets == {"train", "val", "test"}
valid_modalities == {"image", "cloud", "semantic"}

\* bool(x) of an Optional[str]: None and the empty string are falsy.
Truthy(x) == x # None /\ x # ""

\* ---------------------------------------------------------- the table
DATASET_ROOT == "/data"

CsvColumns == {"track", "northing", "easting", "front_cam_ts", "back_cam_ts", "lidar_ts"}

\* Row i (0-based) of the table as stored: track 3, 4, ...; LiDAR
\* timestamps 1000, 1001, ...
CsvRow(i, cols) ==
    [c \in cols |->
        CASE c = "track" -> 3 + i
          [] c = "northing" -> 50 + i
          [] c = "easting" -> 70 + i
          [] c = "front_cam_ts" -> 2000 + i
          [] c = "back_cam_ts" -> 3000 + i
          [] c = "lidar_ts" -> 1000 + i
          [] OTHER -> FALSE]

\* The table the subset's csv file holds.
CsvTable == [i \in 1..NumRows |-> CsvRow(i - 1, CsvColumns)]

\* ----------------------------------------------------- the file system
\* A path is <<root, track, subdir, timestamp, extension>>.
PathOf(track_dir, subdir, ts, ext) == <<track_dir[1], track_dir[2], subdir, ts, ext>>

Png(ok, px) == [type |-> "png", ok |-> ok, px |-> px]
Bin(floats, extra) ==
    [type |-> "bin", nbytes |-> FloatSize * Len(floats) + extra, floats |-> floats]

\* The point-cloud files a lidar directory may hold in the dataset runs:
\* two whole rows (one in range), or six floats (an incomplete second row).
LidarFiles ==
    { Bin(<<1, 2, 3, 0, 200, 0, 0, 0>>, 0),
      Bin(<<1, 2, 3, 0, 4, 5>>, 0) }

NoFile == [type |-> "absent"]

PcdFile == Bin(<<5, 5, 5, 0>>, 0)

ImageStates == {"ok", "missing", "corrupt"}
MaskStates == {"ok", "missing"}

\* The files under the root given the state of each kind of asset.  The
\* pcd directory always holds a readable cloud different from lidar's.
MkFs(table, im, fr, bk, pc) ==
    LET rows == {table[i] : i \in 1..Len(table)}
        td(r) == <<DATASET_ROOT, r["track"]>>
        images == IF im = "missing" THEN {}
                  ELSE {PathOf(td(r), "front_cam", r["front_cam_ts"], "png") : r \in rows}
        fronts == IF fr = "missing" THEN {}
                  ELSE {PathOf(td(r), "labels/front_cam", r["front_cam_ts"], "png") : r \in rows}
        backs  == IF bk = "missing" THEN {}
                  ELSE {PathOf(td(r), "labels/back_cam", r["back_cam_ts"], "png") : r \in rows}
        lidars == IF pc.type = "absent" THEN {}
                  ELSE {PathOf(td(r), "lidar", r["lidar_ts"], "bin") : r \in rows}
        pcds   == {PathOf(td(r), "pcd", r["lidar_ts"], "bin") : r \in rows}
    IN  [p \in images \cup fronts \cup backs \cup lidars \cup pcds |->
            CASE p \in images -> Png(im = "ok", "rgb")
              [] p \in fronts -> Png(TRUE, "front")
              [] p \in backs  -> Png(TRUE, "back")
              [] p \in lidars -> pc
              [] OTHER        -> PcdFile]

FileSystems(table) ==
    { MkFs(table, im, fr, bk, pc) :
        im \in ImageStates, fr \in MaskStates, bk \in MaskStates,
        pc \in LidarFiles \cup {NoFile} }

\* ------------------------------------------------------- construction
\* The arguments of PhystechCampus(...).  dataset_root, subset and
\* modalities are the ones BaseDataset accepts.
SubdirArgs(name) == {None, "", name}

CtorArgs ==
    [ subset : valid_subsets,
      modalities : SUBSET valid_modalities,
      images_subdir : SubdirArgs("front_cam") \cup {"side_cam"},
      semantic_front_subdir : SubdirArgs("labels/front_cam"),
      semantic_back_subdir : SubdirArgs("labels/back_cam"),
      mink_quantization_size : {"0.5"} ]

\* An outcome of a constructor step: the object so far, the table, and
\* the exception raised (None: none).
Ctor(obj, df, exc) == [obj |-> obj, df |-> df, exc |-> exc]

\* super().__init__(dataset_root, subset, modalities): stores root, subset
\* and modalities, reads the subset's csv into dataset_df, and leaves the
\* subdirectory attributes None.
BaseInit(a, table) ==
    Ctor([ dataset_root |-> DATASET_ROOT,
           subset |-> a.subset,
           modalities |-> a.modalities,
           images_subdir |-> None,
           clouds_subdir |-> None,
           semantic_front_subdir |-> None,
           semantic_back_subdir |-> None,
           mink_quantization_size |-> None,
           image_transform |-> None,
           cloud_transform |-> None,
           cloud_set_transform |-> None,
           semantic_transform |-> None ],
         table, None)

\* if "cloud" in self.modalities: self.clouds_subdir = Path("pcd")
CloudSubdirStep(c) ==
    IF "cloud" \in c.obj.modalities
    THEN [c EXCEPT !.obj.clouds_subdir = "pcd"]
    ELSE c

\* if "image" in self.modalities: images_subdir truthy, or ValueError.
ImageSubdirStep(c, images_subdir) ==
    IF "image" \in c.obj.modalities
    THEN IF Truthy(images_subdir)
         THEN [c EXCEPT !.obj.images_subdir = images_subdir]
         ELSE [c EXCEPT !.exc = "ValueError"]
    ELSE c

\* if "semantic" in self.modalities: each truthy sub-channel is stored.
SemanticSubdirStep(c, front, back) ==
    IF "semantic" \in c.obj.modalities
    THEN [c EXCEPT !.obj.semantic_front_subdir = IF Truthy(front) THEN front ELSE @,
                   !.obj.semantic_back_subdir = IF Truthy(back) THEN back ELSE @]
    ELSE c

\* Mutant of CloudOverrideStep: the subdirectory set before is kept.
CloudOverrideStepMissing(c) == c

\* self.clouds_subdir = Path("lidar")
CloudOverrideStep(c) == [c EXCEPT !.obj.clouds_subdir = "lidar"]

\* self.mink_quantization_size = mink_quantization_size
QuantizationStep(c, q) == [c EXCEPT !.obj.mink_quantization_size = q]

\* df["in_query"] = True: the column in_query is True in every row, added
\* when the table has none.
SetInQuery(df) ==
    [i \in 1..Len(df) |->
        [col \in DOMAIN df[i] \cup {"in_query"} |->
            IF col = "in_query" THEN TRUE ELSE df[i][col]]]

\* Mutant of InQueryStep: the column is set for every subset.
InQueryStepAnySubset(c) == [c EXCEPT !.df = SetInQuery(@)]

\* if self.subset == "test": self.dataset_df["in_query"] = True
InQueryStep(c) ==
    IF c.obj.subset = "test" THEN [c EXCEPT !.df = SetInQuery(@)] ELSE c

\* A Default*Transform(train=...) instance.
Transform(kind, train) == [kind |-> kind, train |-> train]

TransformsStep(c, subset) ==
    [c EXCEPT !.obj.image_transform = Transform("image", subset = "train"),
              !.obj.cloud_transform = Transform("cloud", subset = "train"),
              !.obj.cloud_set_transform = Transform("cloud_set", subset = "train"),
              !.obj.semantic_transform = Transform("semantic", subset = "train")]

\* __init__: the steps in order; the first exception ends construction.
PhystechCampusInit(a, table) ==
    LET c0 == BaseInit(a, table)
        c1 == CloudSubdirStep(c0)
        c2 == ImageSubdirStep(c1, a.images_subdir)
    IN  IF c2.exc # None THEN c2
        ELSE TransformsStep(
               InQueryStep(
                 QuantizationStep(
                   CloudOverrideStep(
                     SemanticSubdirStep(c2, a.semantic_front_subdir,
                                        a.semantic_back_subdir)),
                   a.mink_quantization_size)),
               a.subset)

\* ----------------------------------------------------------- _load_pc
\* np.fromfile(filepath, dtype=np.float32): the whole float32 values of
\* the file, nbytes div 4 of them; bytes after the last whole value are
\* not read.  A file that does not exist raises FileNotFoundError.
FromFile(files, filepath) ==
    IF filepath \notin DOMAIN files
    THEN [exc |-> "FileNotFoundError", arr |-> <<>>]
    ELSE [exc |-> None,
          arr |-> SubSeq(files[filepath].floats, 1, files[filepath].nbytes \div FloatSize)]

\* Mutant of Reshape: an incomplete last row is dropped, not refused.
ReshapeTruncating(arr) ==
    [exc |-> None,
     rows |-> [i \in 1..(Len(arr) \div RowWidth) |->
                 SubSeq(arr, RowWidth * (i - 1) + 1, RowWidth * i)]]

\* arr.reshape((-1, 4)): rows of 4 values; ValueError when the size is
\* not a multiple of 4.  The empty array gives zero rows.
Reshape(arr) ==
    IF Len(arr) % RowWidth # 0
    THEN [exc |-> "ValueError", rows |-> <<>>]
    ELSE [exc |-> None,
          rows |-> [i \in 1..(Len(arr) \div RowWidth) |->
                      SubSeq(arr, RowWidth * (i - 1) + 1, RowWidth * i)]]

\* rows[:, :-1]: every row without its last value.
DropLast(rows) == [i \in 1..Len(rows) |-> SubSeq(rows[i], 1, Len(rows[i]) - 1)]

\* Mutant of InRange: the limits themselves are out of range.
InRangeStrict(p) == \A k \in 1..Len(p) : -RangeLimit < p[k] /\ p[k] < RangeLimit

\* np.all(np.logical_and(-100 <= pc, pc <= 100), axis=1) for one row.
InRange(p) == \A k \in 1..Len(p) : -RangeLimit <= p[k] /\ p[k] <= RangeLimit

\* pc[in_range_idx]: the rows whose mask is true, in order.
RangeFilter(pc) == SelectSeq(pc, InRange)

\* _load_pc(filepath): the tensor of kept points, or the exception.
LoadPc(files, filepath) ==
    LET f == FromFile(files, filepath)
        r == Reshape(f.arr)
    IN  IF f.exc # None THEN [exc |-> f.exc, pc |-> <<>>]
        ELSE IF r.exc # None THEN [exc |-> r.exc, pc |-> <<>>]
        ELSE [exc |-> None, pc |-> RangeFilter(DropLast(r.rows))]

\* -------------------------------------------------------- __getitem__
\* The state of one __getitem__ call: the sample so far, the files it
\* opened, the exception raised (None: none).
NoData == [k \in {} |-> None]

\* Mutant of Iloc: the position wraps around instead of being refused.
IlocModulo(df, idx) == [exc |-> None, row |-> df[(idx % Len(df)) + 1]]

\* self.dataset_df.iloc[idx]: positions -len .. len-1 are accepted, a
\* negative one counting from the end; any other raises IndexError.
Iloc(df, idx) ==
    IF idx < -Len(df) \/ idx >= Len(df)
    THEN [exc |-> "IndexError", row |-> None]
    ELSE [exc |-> None, row |-> df[(IF idx < 0 THEN idx + Len(df) ELSE idx) + 1]]

\* data = {"idx": idx}; row = iloc[idx]; data["utm"] = (northing, easting)
RowStep(df, idx) ==
    LET r == Iloc(df, idx)
    IN  IF r.exc # None
        THEN [data |-> NoData, reads |-> <<>>, exc |-> r.exc]
        ELSE [data |-> ("idx" :> idx) @@ ("utm" :> <<r.row["northing"], r.row["easting"]>>),
              reads |-> <<>>, exc |-> None]

\* track_dir = self.dataset_root / str(row["track"])
TrackDir(obj, row) == <<obj.dataset_root, row["track"]>>

\* f"{self.images_subdir}_ts"
TsColumn(subdir) == subdir \o "_ts"

\* cv2.imread: the decoded file, or None when the file is missing or
\* cannot be decoded.
Imread(files, path) ==
    IF path \in DOMAIN files /\ files[path].type = "png" /\ files[path].ok
    THEN files[path].px
    ELSE None

\* Mutant of ImageStep: an image that cannot be read is skipped.
ImageStepSkipOnFailure(obj, row, files, st) ==
    IF "image" \in obj.modalities /\ obj.images_subdir # None
    THEN IF TsColumn(obj.images_subdir) \notin DOMAIN row
         THEN [st EXCEPT !.exc = "KeyError"]
         ELSE LET path == PathOf(TrackDir(obj, row), obj.images_subdir,
                                 row[TsColumn(obj.images_subdir)], "png")
                  im == Imread(files, path)
              IN  IF im = None
                  THEN [st EXCEPT !.reads = Append(@, path)]
                  ELSE [st EXCEPT !.reads = Append(@, path),
                                  !.data = @ @@ ("image" :> [transform |-> obj.image_transform,
                                                              layout |-> "RGB", px |-> im])]
    ELSE st

\* The image step.
ImageStep(obj, row, files, st) ==
    IF "image" \in obj.modalities /\ obj.images_subdir # None
    THEN IF TsColumn(obj.images_subdir) \notin DOMAIN row
         THEN [st EXCEPT !.exc = "KeyError"]
         ELSE LET path == PathOf(TrackDir(obj, row), obj.images_subdir,
                                 row[TsColumn(obj.images_subdir)], "png")
                  im == Imread(files, path)
              IN  IF im = None
                  THEN [st EXCEPT !.reads = Append(@, path), !.exc = "cv2.error"]
                  ELSE [st EXCEPT !.reads = Append(@, path),
                                  !.data = @ @@ ("image" :> [transform |-> obj.image_transform,
                                                              layout |-> "RGB", px |-> im])]
    ELSE st

\* Mutant of CloudStep: the cloud is loaded whether or not the modality
\* is enabled.
CloudStepAnyModality(obj, row, files, st) ==
    IF obj.clouds_subdir # None
    THEN LET path == PathOf(TrackDir(obj, row), obj.clouds_subdir, row["lidar_ts"], "bin")
             r == LoadPc(files, path)
         IN  IF r.exc # None
             THEN [st EXCEPT !.reads = Append(@, path), !.exc = r.exc]
             ELSE [st EXCEPT !.reads = Append(@, path),
                             !.data = @ @@ ("cloud" :> r.pc)]
    ELSE st

\* The cloud step.
CloudStep(obj, row, files, st) ==
    IF "cloud" \in obj.modalities /\ obj.clouds_subdir # None
    THEN LET path == PathOf(TrackDir(obj, row), obj.clouds_subdir, row["lidar_ts"], "bin")
             r == LoadPc(files, path)
         IN  IF r.exc # None
             THEN [st EXCEPT !.reads = Append(@, path), !.exc = r.exc]
             ELSE [st EXCEPT !.reads = Append(@, path),
                             !.data = @ @@ ("cloud" :> r.pc)]
    ELSE st

\* Mutant of MaskStep: the sub-channel is loaded whether or not its
\* subdirectory is set.
MaskStepUnguarded(obj, row, files, st, subdir, column, key) ==
    LET path == PathOf(TrackDir(obj, row), subdir, row[column], "png")
        m == Imread(files, path)
    IN  IF m = None
        THEN [st EXCEPT !.reads = Append(@, path), !.exc = "cv2.error"]
        ELSE [st EXCEPT !.reads = Append(@, path),
                        !.data = @ @@ (key :> [transform |-> obj.semantic_transform,
                                               layout |-> "128x128", px |-> m])]

\* One semantic sub-channel: imread(..., 0), resize to 128x128, transform,
\* float().
MaskStep(obj, row, files, st, subdir, column, key) ==
    IF Truthy(subdir)
    THEN LET path == PathOf(TrackDir(obj, row), subdir, row[column], "png")
             m == Imread(files, path)
         IN  IF m = None
             THEN [st EXCEPT !.reads = Append(@, path), !.exc = "cv2.error"]
             ELSE [st EXCEPT !.reads = Append(@, path),
                             !.data = @ @@ (key :> [transform |-> obj.semantic_transform,
                                                         layout |-> "128x128", px |-> m])]
    ELSE st

\* The semantic step: front, then back.
SemanticStep(obj, row, files, st) ==
    IF "semantic" \in obj.modalities
       /\ (obj.semantic_front_subdir # None \/ obj.semantic_back_subdir # None)
    THEN LET s1 == MaskStep(obj, row, files, st, obj.semantic_front_subdir,
                            "front_cam_ts", "semantic_front")
         IN  IF s1.exc # None THEN s1
             ELSE MaskStep(obj, row, files, s1, obj.semantic_back_subdir,
                           "back_cam_ts", "semantic_back")
    ELSE st

\* __getitem__(idx): the steps in order; the first exception ends the call.
GetItemRun(obj, df, files, idx) ==
    LET s0 == RowStep(df, idx)
    IN  IF s0.exc # None THEN s0
        ELSE LET row == Iloc(df, idx).row
                 s1 == ImageStep(obj, row, files, s0)
             IN  IF s1.exc # None THEN s1
                 ELSE LET s2 == CloudStep(obj, row, files, s1)
                      IN  IF s2.exc # None THEN s2
                          ELSE SemanticStep(obj, row, files, s2)

\* ------------------------------------------------------ the state machine
NoCall == [op |-> "none", idx |-> 0, outcome |-> None, exc |-> None,
           data |-> NoData, reads |-> <<>>]

Init ==
    /\ phase = "new"
    /\ args = None
    /\ self = None
    /\ csv = CsvTable
    /\ dataset_df = None
    /\ fs \in FileSystems(csv)
    /\ call = NoCall

\* PhystechCampus(dataset_root, subset, modalities, ...)
Construct ==
    /\ phase = "new"
    /\ \E a \in CtorArgs :
         LET c == PhystechCampusInit(a, csv)
         IN  /\ args' = a
             /\ IF c.exc = None
                THEN /\ phase' = "ready"
                     /\ self' = c.obj
                     /\ dataset_df' = c.df
                     /\ call' = [NoCall EXCEPT !.op = "init", !.outcome = "returned"]
                ELSE /\ phase' = "failed"
                     /\ self' = None
                     /\ dataset_df' = None
                     /\ call' = [NoCall EXCEPT !.op = "init", !.outcome = "raised",
                                               !.exc = c.exc]
    /\ UNCHANGED <<csv, fs>>

Indices == -(NumRows + 1) .. (NumRows + 1)

\* Mutant of GetItem: a call whose image cannot be read turns the image
\* subdirectory off for the calls that follow.
GetItemForgetting ==
    /\ phase = "ready"
    /\ \E idx \in Indices :
         LET s == GetItemRun(self, dataset_df, fs, idx)
         IN  /\ call' = [op |-> "getitem", idx |-> idx,
                         outcome |-> IF s.exc = None THEN "returned" ELSE "raised",
                         exc |-> s.exc,
                         data |-> IF s.exc = None THEN s.data ELSE NoData,
                         reads |-> s.reads]
             /\ self' = IF s.exc = "cv2.error" /\ Len(s.reads) = 1
                        THEN [self EXCEPT !.images_subdir = None]
                        ELSE self
    /\ UNCHANGED <<phase, args, csv, dataset_df, fs>>

\* dataset[idx]
GetItem ==
    /\ phase = "ready"
    /\ \E idx \in Indices :
         LET s == GetItemRun(self, dataset_df, fs, idx)
         IN  call' = [op |-> "getitem", idx |-> idx,
                      outcome |-> IF s.exc = None THEN "returned" ELSE "raised",
                      exc |-> s.exc,
                      data |-> IF s.exc = None THEN s.data ELSE NoData,
                      reads |-> s.reads]
    /\ UNCHANGED <<phase, args, self, csv, dataset_df, fs>>

Next == Construct \/ GetItem

Spec == Init /\ [][Next]_vars

\* ------------------------------------------- _load_pc on its own inputs
\* The coordinates a generated file holds: both limits of the range and
\* the first integers outside it.
PcValues == {-RangeLimit - 1, -RangeLimit, RangeLimit, RangeLimit + 1}

\* The values at a row's fourth position: one inside the range, one outside.
FourthValues == {RangeLimit, RangeLimit + 1}

ValuesAt(k) == IF k % RowWidth = 0 THEN FourthValues ELSE PcValues

\* The float sequences of at most n values.
RECURSIVE FloatSeqs(_)
FloatSeqs(n) ==
    IF n = 0 THEN {<<>>}
    ELSE LET shorter == FloatSeqs(n - 1)
         IN  shorter \cup
             {Append(q, v) : q \in {x \in shorter : Len(x) = n - 1}, v \in ValuesAt(n)}

\* Files of whole float32 values, and files that end in 1..3 stray bytes
\* after 0..MaxFloats values.
WholeFiles == {Bin(f, 0) : f \in FloatSeqs(MaxFloats)}

StrayFiles ==
    {Bin([k \in 1..n |-> RangeLimit], e) : n \in 0..MaxFloats, e \in 1..(FloatSize - 1)}

PcFiles == WholeFiles \cup StrayFiles

PcPath == PathOf(<<DATASET_ROOT, 3>>, "lidar", 1000, "bin")

InitPC ==
    /\ phase = "pc"
    /\ args = None
    /\ self = None
    /\ csv = <<>>
    /\ dataset_df = None
    /\ fs \in {[p \in {} |-> NoFile]} \cup {[p \in {PcPath} |-> c] : c \in PcFiles}
    /\ call = NoCall

\* self._load_pc(filepath)
LoadPcCall ==
    /\ phase = "pc"
    /\ LET r == LoadPc(fs, PcPath)
       IN  call' = [op |-> "load_pc", idx |-> 0,
                    outcome |-> IF r.exc = None THEN "returned" ELSE "raised",
                    exc |-> r.exc,
                    data |-> IF r.exc = None THEN ("pc" :> r.pc) ELSE NoData,
                    reads |-> <<PcPath>>]
    /\ UNCHANGED <<phase, args, self, csv, dataset_df, fs>>

NextPC == LoadPcCall

SpecPC == InitPC /\ [][NextPC]_vars

\* ===================================================== the claims
IsGet == phase = "ready" /\ call.op = "getitem"
Returned == IsGet /\ call.outcome = "returned"
Raised == IsGet /\ call.outcome = "raised"
Keys == DOMAIN call.data

ModalityKeys == {"image", "cloud", "semantic_front", "semantic_back"}

ModalityOf(key) ==
    CASE key = "image" -> "image"
      [] key = "cloud" -> "cloud"
      [] OTHER -> "semantic"

\* The subdirectory the constructed object holds for a key (None: not
\* configured).
SubdirOf(key) ==
    CASE key = "image" -> self.images_subdir
      [] key = "cloud" -> self.clouds_subdir
      [] key = "semantic_front" -> self.semantic_front_subdir
      [] OTHER -> self.semantic_back_subdir

EnabledAndConfigured(key) == ModalityOf(key) \in args.modalities /\ SubdirOf(key) # None

\* The row of the stored table a call with index idx works on.
ValidIdx(idx) == -Len(csv) <= idx /\ idx < Len(csv)
RowOf(idx) == csv[(IF idx < 0 THEN idx + Len(csv) ELSE idx) + 1]

\* The asset of a key for a row, located from the stored table and the
\* constructor's arguments.
AssetPath(key, row) ==
    CASE key = "image" ->
           <<DATASET_ROOT, row["track"], args.images_subdir, row["front_cam_ts"], "png">>
      [] key = "cloud" ->
           <<DATASET_ROOT, row["track"], "lidar", row["lidar_ts"], "bin">>
      [] key = "semantic_front" ->
           <<DATASET_ROOT, row["track"], args.semantic_front_subdir, row["front_cam_ts"], "png">>
      [] OTHER ->
           <<DATASET_ROOT, row["track"], args.semantic_back_subdir, row["back_cam_ts"], "png">>

\* The asset of a key cannot be used: it is missing, cannot be decoded,
\* or (a cloud) does not hold whole rows of 4 values.
AssetBad(key, row) ==
    LET p == AssetPath(key, row)
    IN  \/ p \notin DOMAIN fs
        \/ key = "cloud" /\ (fs[p].nbytes \div FloatSize) % RowWidth # 0
        \/ key # "cloud" /\ ~fs[p].ok

\* C1: in every sample __getitem__ returns, each of the keys image, cloud,
\* semantic_front and semantic_back is present if and only if its modality
\* is enabled and the constructed object holds a subdirectory for it; a
\* modality that is not enabled never has its key in a sample.
C1_KeysIffEnabledAndConfigured ==
    Returned =>
        /\ \A key \in ModalityKeys : key \in Keys <=> EnabledAndConfigured(key)
        /\ \A key \in ModalityKeys : ModalityOf(key) \notin args.modalities => key \notin Keys

\* A sample was returned that holds some modality keys and lacks others.
C1_Witness ==
    /\ Returned
    /\ "cloud" \in Keys /\ "semantic_front" \in Keys
    /\ "image" \notin Keys /\ "semantic_back" \notin Keys
    /\ "semantic" \in args.modalities /\ "image" \notin args.modalities

\* C3 (the configuration): semantic enabled, front configured, back null.
FrontOnly ==
    /\ phase = "ready"
    /\ "semantic" \in args.modalities
    /\ Truthy(args.semantic_front_subdir)
    /\ args.semantic_back_subdir = None

\* C3: with semantic enabled, a front subdirectory configured and the back
\* one null, every returned sample contains semantic_front and not
\* semantic_back; and when semantic is the only modality, the call on a
\* valid index whose front mask is present does return a sample.
C3_FrontWithoutBack ==
    FrontOnly /\ IsGet =>
        /\ Returned => "semantic_front" \in Keys /\ "semantic_back" \notin Keys
        /\ ( /\ args.modalities = {"semantic"}
             /\ 0 <= call.idx /\ call.idx < Len(csv)
             /\ ~AssetBad("semantic_front", RowOf(call.idx)) ) => Returned

C3_Witness ==
    /\ FrontOnly /\ Returned
    /\ "semantic_front" \in Keys /\ "semantic_back" \notin Keys
    /\ call.idx = 1

\* C4 (as claimed): __getitem__(index) returns a sample only when
\* 0 <= index < length, and fails with IndexError for every other index,
\* negative ones included.
C4_OnlyNonNegativeIndices ==
    IsGet =>
        /\ Returned => 0 <= call.idx /\ call.idx < Len(dataset_df)
        /\ ~(0 <= call.idx /\ call.idx < Len(dataset_df)) =>
               call.outcome = "raised" /\ call.exc = "IndexError"

\* C4 (amended): __getitem__(index) returns a sample only when
\* -length <= index < length, a negative index addressing the row
\* length + index while the sample's idx stays the index given; for every
\* index outside that range the call fails with IndexError, reads no file
\* and returns no sample.
C4_IndexRange ==
    IsGet =>
        /\ Returned =>
             /\ -Len(dataset_df) <= call.idx /\ call.idx < Len(dataset_df)
             /\ call.data["idx"] = call.idx
             /\ call.data["utm"] = <<RowOf(call.idx)["northing"], RowOf(call.idx)["easting"]>>
        /\ (call.idx < -Len(dataset_df) \/ call.idx >= Len(dataset_df)) =>
             /\ call.outcome = "raised" /\ call.exc = "IndexError"
             /\ call.data = NoData /\ call.reads = <<>>

\* An index below -length was refused.
C4_Witness ==
    /\ IsGet /\ call.idx < -Len(dataset_df)
    /\ call.outcome = "raised" /\ call.exc = "IndexError"

\* C6 (as claimed): construction fails with ValueError whenever the image
\* modality is enabled and images_subdir is null, and this check does not
\* fail construction when images_subdir is non-null or image is not enabled.
C6_ValueErrorIffNull ==
    call.op = "init" =>
        ( (call.outcome = "raised" /\ call.exc = "ValueError")
          <=> ("image" \in args.modalities /\ args.images_subdir = None) )

\* C7: a __getitem__ call returns one fully assembled sample or fails as a
\* whole: when the asset of an enabled and configured modality is missing
\* or unusable the call raises and returns no sample, and a returned sample
\* holds a produced value for every enabled and configured modality.
C7_AllOrNothing ==
    IsGet =>
        /\ ( /\ ValidIdx(call.idx)
             /\ \E key \in ModalityKeys :
                  EnabledAndConfigured(key) /\ AssetBad(key, RowOf(call.idx)) )
           => call.outcome = "raised" /\ call.data = NoData
        /\ Returned =>
             \A key \in ModalityKeys :
                EnabledAndConfigured(key) =>
                    /\ key \in Keys
                    /\ key # "cloud" => call.data[key].px # None

\* The image was read, then the cloud step failed, and the call raised.
C7_Witness ==
    /\ Raised
    /\ Len(call.reads) = 2
    /\ call.exc = "FileNotFoundError"
    /\ call.data = NoData

\* C8 (as claimed): neither construction nor __getitem__ adds, removes or
\* changes a column or a row of dataset_df.
C8_TableUntouched == phase = "ready" => dataset_df = csv

\* C8 (amended): construction with subset "test" sets the column in_query
\* to True in every row of dataset_df, adding it when the table has none;
\* apart from that column, neither construction nor any sequence of
\* __getitem__ calls adds, removes or changes a column or a row, and for
\* the subsets train and val the table stays as loaded.
C8_OnlyInQueryAdded ==
    phase = "ready" =>
        /\ Len(dataset_df) = Len(csv)
        /\ \A i \in 1..Len(csv) :
             /\ DOMAIN csv[i] \subseteq DOMAIN dataset_df[i]
             /\ DOMAIN dataset_df[i] \subseteq DOMAIN csv[i] \cup {"in_query"}
             /\ \A col \in DOMAIN csv[i] \ {"in_query"} : dataset_df[i][col] = csv[i][col]
             /\ args.subset = "test" =>
                  "in_query" \in DOMAIN dataset_df[i] /\ dataset_df[i]["in_query"] = TRUE
        /\ args.subset # "test" => dataset_df = csv

C8_Witness ==
    /\ Returned
    /\ args.subset = "test"
    /\ \A i \in 1..Len(dataset_df) : "in_query" \in DOMAIN dataset_df[i]

\* C9: the configuration is fixed at construction: no __getitem__ call,
\* successful or failing, changes the enabled modalities, the
\* subdirectories, the quantization size or the transforms, and nothing is
\* cached: a call with the index of the call before it performs the same
\* reads and steps (the same files in the same order, the same keys or the
\* same exception).
C9_ConfigFixedNoCache ==
    [][ phase = "ready" =>
           /\ self' = self
           /\ (call.op = "getitem" /\ call'.idx = call.idx) =>
                 /\ call'.reads = call.reads
                 /\ call'.outcome = call.outcome /\ call'.exc = call.exc
                 /\ DOMAIN call'.data = DOMAIN call.data ]_vars

\* A failing call has happened and the object is as construction left it.
C9_Witness ==
    /\ Raised
    /\ call.reads # <<>>
    /\ self = PhystechCampusInit(args, csv).obj

\* C10: after every successful construction the point-cloud subdirectory
\* is "lidar", every point-cloud file __getitem__ opens is
\* {root}/{track}/lidar/{lidar_ts}.bin, and the cloud key is in a returned
\* sample exactly when the cloud modality is enabled.
C10_CloudsSubdirIsLidar ==
    phase = "ready" =>
        /\ self.clouds_subdir = "lidar"
        /\ IsGet =>
             \A k \in 1..Len(call.reads) :
                call.reads[k][5] = "bin" =>
                    call.reads[k] = AssetPath("cloud", RowOf(call.idx))
        /\ Returned => ("cloud" \in Keys <=> "cloud" \in args.modalities)

C10_Witness ==
    /\ Returned
    /\ "cloud" \in Keys
    /\ \E k \in 1..Len(call.reads) : call.reads[k] = <<DATASET_ROOT, 3, "lidar", 1000, "bin">>

\* ------------------------------------------------ _load_pc on its own
IsLoad == call.op = "load_pc"
PcExists == PcPath \in DOMAIN fs
PcOut == call.data["pc"]

\* The file read as rows of 4 values.
FileRows == fs[PcPath].nbytes \div (FloatSize * RowWidth)
FileValue(i, k) == fs[PcPath].floats[RowWidth * (i - 1) + k]
FilePoint(i) == <<FileValue(i, 1), FileValue(i, 2), FileValue(i, 3)>>

\* The rows of the file whose x, y and z all lie in [-100, 100].
KeptRows ==
    {i \in 1..FileRows :
        \A k \in 1..3 : -RangeLimit <= FileValue(i, k) /\ FileValue(i, k) <= RangeLimit}

\* C2: for a file holding a sequence of 4-value rows, the empty one
\* included, _load_pc returns exactly the (x, y, z) triples of the rows
\* whose three coordinates all lie in [-100, 100], in file order: every
\* returned point is in range, every in-range row is returned, a row with
\* one axis out of range is dropped whole, the fourth value has no effect,
\* and the empty file gives zero points and no error.
C2_RangeFilterExact ==
    (IsLoad /\ PcExists /\ fs[PcPath].nbytes % (FloatSize * RowWidth) = 0) =>
        /\ call.outcome = "returned"
        /\ Len(PcOut) = Cardinality(KeptRows)
        /\ \A j \in 1..Len(PcOut) :
             /\ \A k \in 1..3 : -RangeLimit <= PcOut[j][k] /\ PcOut[j][k] <= RangeLimit
             /\ \E i \in KeptRows :
                  /\ Cardinality({m \in KeptRows : m <= i}) = j
                  /\ PcOut[j] = FilePoint(i)
        /\ FileRows = 0 => PcOut = <<>>

\* Two rows with out-of-range fourth values: the first lies on the limits
\* and is kept, the second has y alone out of range and is dropped.
C2_Witness ==
    /\ IsLoad /\ PcExists
    /\ fs[PcPath].floats = <<RangeLimit, -RangeLimit, RangeLimit, RangeLimit + 1,
                             RangeLimit, RangeLimit + 1, -RangeLimit, RangeLimit + 1>>
    /\ call.outcome = "returned"
    /\ PcOut = << <<RangeLimit, -RangeLimit, RangeLimit>> >>

\* C5 (as claimed): _load_pc fails, and returns no cloud, whenever the file
\* does not exist or its byte length is not a multiple of 16; no trailing
\* bytes are silently discarded.
C5_FailsUnlessMultipleOf16 ==
    IsLoad =>
        ( (~PcExists \/ fs[PcPath].nbytes % (FloatSize * RowWidth) # 0)
          => call.outcome = "raised" /\ call.data = NoData )

\* C5 (amended): _load_pc fails, and returns no cloud, exactly when the
\* file does not exist (FileNotFoundError) or the number of whole 32-bit
\* values in it, its byte length div 4, is not a multiple of 4
\* (ValueError); up to 3 bytes after the last whole value are discarded
\* silently, the rows before them being loaded.
C5_FailsUnlessWholeRows ==
    IsLoad =>
        /\ call.outcome = "raised" <=>
             (~PcExists \/ (fs[PcPath].nbytes \div FloatSize) % RowWidth # 0)
        /\ call.outcome = "raised" =>
             /\ call.data = NoData
             /\ call.exc = IF PcExists THEN "ValueError" ELSE "FileNotFoundError"
        /\ call.outcome = "returned" => Len(PcOut) = Cardinality(KeptRows)

\* A file of one row and stray bytes was loaded as one point.
C5_Witness ==
    /\ IsLoad /\ PcExists
    /\ fs[PcPath].nbytes > FloatSize * RowWidth
    /\ fs[PcPath].nbytes % (FloatSize * RowWidth) \in 1..(FloatSize - 1)
    /\ call.outcome = "returned"
    /\ Len(PcOut) = 1

====
